---- MODULE Spec2Model ----
(***************************************************************************)
(* Model of recirq's executable batch model (quantum_executable.py):       *)
(* the QuantumExecutable leaf, the ProgramGroup node, the frozen-dataclass *)
(* attribute protection and flatten_program_group.                         *)
(*                                                                         *)
(* The classes are immutable values, so the state of the model is what a   *)
(* driver holds: the record of the most recent call (last), of the call    *)
(* before it (prev) and the nodes it keeps to build a tree from (stack).   *)
(* The topologies of named_topologies.py are values too; a get_placements  *)
(* call in progress adds its locals to the state.                          *)
(***************************************************************************)
EXTENDS Integers, Sequences, FiniteSets, TLC

VARIABLES stack, last, prev
VARIABLES pc, big_graph, small_graph, matcher, dedupe, small_mappeds

\* The locals of a get_placements call in progress.
placing == <<pc, big_graph, small_graph, matcher, dedupe, small_mappeds>>

vars == <<stack, last, prev, placing>>

(***************************************************************************)
(* Python values.  A dict and a tuple of key-value pairs are both kept as  *)
(* the ordered sequence of their <<key, value>> pairs, tagged by type.     *)
(***************************************************************************)
None == [type |-> "NoneType", items |-> <<>>]

PyDict(items) == [type |-> "dict", items |-> items]

PyTuple(items) == [type |-> "tuple", items |-> items]

NoResult == [cls |-> "NoResult"]

Range(s) == {s[i] : i \in 1..Len(s)}

\* dict(pairs): keys in first-insertion order, a repeated key keeps its
\* position and takes the later value.
RECURSIVE DictInsert(_, _, _)
DictInsert(d, k, v) ==
    IF d = <<>> THEN <<<<k, v>>>>
    ELSE IF Head(d)[1] = k THEN <<<<k, v>>>> \o Tail(d)
    ELSE <<Head(d)>> \o DictInsert(Tail(d), k, v)

RECURSIVE DictOf(_)
DictOf(pairs) ==
    IF pairs = <<>> THEN <<>>
    ELSE LET n == Len(pairs)
         IN  DictInsert(DictOf(SubSeq(pairs, 1, n - 1)), pairs[n][1], pairs[n][2])

DictKeys(d) == {d[i][1] : i \in 1..Len(d)}

(***************************************************************************)
(* Circuits and measurement specifications.                                *)
(***************************************************************************)
Circuit(m) == [cls |-> "Circuit", moments |-> m]

FrozenCircuit(m) == [cls |-> "FrozenCircuit", moments |-> m]

\* circuit.freeze()
Freeze(circuit) == FrozenCircuit(circuit.moments)

Bitstrings(n) == [cls |-> "Bitstrings", n_repetitions |-> n, measure_qubits |-> None]

Histogrammer == [cls |-> "Histogrammer"]

FrozenCollectionOfPauliSum == [cls |-> "FrozenCollectionOfPauliSum"]

\* A list of observables, as example() passes: no measurement class.
PauliSumList == [cls |-> "list"]

\* Mutant: the isinstance test of line 110 left out.
IsMeasurementUnchecked(m) == TRUE

\* isinstance(measurement, (Bitstrings, FrozenCollectionOfPauliSum, Histogrammer))
IsMeasurement(m) ==
    m.cls \in {"Bitstrings", "FrozenCollectionOfPauliSum", "Histogrammer"}

\* isinstance(problem_topology, ProblemTopology)
IsProblemTopology(t) == t = "DiagonalRectangleTopology"

\* isinstance(initial_state, cirq.ProductState)
IsProductState(s) == s = "ProductState"

(***************************************************************************)
(* Exceptions: the class and the statement of __init__ that raised.        *)
(***************************************************************************)
Raised(exc, at) == [exc |-> exc, at |-> at]

NoError == Raised("", "")

(***************************************************************************)
(* QuantumExecutable.__init__, statement by statement.  Each step gives    *)
(* [error, value]: the exception it raises, or the value it stores.        *)
(***************************************************************************)
Step(error, value) == [error |-> error, value |-> value]

\* all(isinstance(kv, tuple) and len(kv) == 2 for kv in x), x iterable:
\* a tuple yields its elements, a dict yields its keys (strings).
AllPairsIn(x) ==
    IF x.type = "tuple" THEN \A i \in 1..Len(x.items) : Len(x.items[i]) = 2
    ELSE Len(x.items) = 0

\* cirq.ParamResolver(params).param_dict.items(), params None or a dict
ParamResolverItems(params) == DictOf(params.items)

FreezeParams(params) ==
    IF params.type = "tuple" /\ AllPairsIn(params)
    THEN params
    ELSE PyTuple(ParamResolverItems(params))

\* The test of line 124 iterates params, not info.
FreezeInfo(info, params) ==
    IF info.type = "tuple"
    THEN IF params.type = "NoneType"
         THEN Step(Raised("TypeError", "info"), None)          \* iter(None)
         ELSE IF AllPairsIn(params)
         THEN Step(NoError, info)
         ELSE Step(Raised("AttributeError", "info"), None)     \* tuple.items
    ELSE IF info.type = "dict"
    THEN Step(NoError, PyTuple(info.items))
    ELSE Step(Raised("AttributeError", "info"), None)          \* None.items

\* Mutant: n_repetitions declared with compare=False, so astuple-based
\* hashing no longer sees it.
MeasurementAsTupleNoRepetitions(m) ==
    IF m.cls = "Bitstrings" THEN <<m.measure_qubits>> ELSE <<>>

\* dataclasses.astuple of a measurement dataclass: its fields in order.
MeasurementAsTuple(m) ==
    IF m.cls = "Bitstrings" THEN <<m.n_repetitions, m.measure_qubits>> ELSE <<>>

\* dataclasses.astuple(self): the six dataclass fields in declaration order,
\* dataclasses and tuples recursed into, anything else deep-copied.  A
\* ProblemTopology defines no __eq__/__hash__, so its deep copy hashes by
\* the address copyAddr of the copy; None hashes as a constant.
AsTuple(self, copyAddr) ==
    << self.circuit,
       MeasurementAsTuple(self.measurement),
       self.params.items,
       self.info.items,
       IF self.problem_topology = "None" THEN 0 ELSE copyAddr,
       self.initial_state >>

\* hash(t) of a tuple of hashable values, idealised as collision free: the
\* hash is identified with the tuple of the elements' hashes.
Hash(t) == t

LeafFields == <<"circuit", "measurement", "params", "info",
                "problem_topology", "initial_state">>

Executable(circuit, measurement, params, info, problem_topology, initial_state) ==
    [cls |-> "QuantumExecutable", circuit |-> circuit, measurement |-> measurement,
     params |-> params, info |-> info, problem_topology |-> problem_topology,
     initial_state |-> initial_state, hash |-> <<>>]

\* The constructor's outcome: [error, value], value the leaf when no
\* statement raised.  copyAddr is where astuple's deep copy of the topology
\* lands; stateHashable is whether astuple of the (library) ProductState is
\* hashable, which this repository does not decide.
QuantumExecutableInit(circuit, measurement, params, info, problem_topology, initial_state, uuid, copyAddr, stateHashable) ==
    LET frozen_info == FreezeInfo(info, params)
        self == Executable(Freeze(circuit), measurement, FreezeParams(params),
                           frozen_info.value, problem_topology, initial_state)
    IN  IF ~IsMeasurement(measurement)
        THEN Step(Raised("ValueError", "measurement"), NoResult)
        ELSE IF frozen_info.error # NoError
        THEN Step(frozen_info.error, NoResult)
        ELSE IF problem_topology # "None" /\ ~IsProblemTopology(problem_topology)
        THEN Step(Raised("ValueError", "problem_topology"), NoResult)
        ELSE IF initial_state # "None" /\ ~IsProductState(initial_state)
        THEN Step(Raised("ValueError", "initial_state"), NoResult)
        ELSE IF initial_state # "None" /\ ~stateHashable
        THEN Step(Raised("TypeError", "_hash"), NoResult)
        ELSE Step(NoError, [self EXCEPT !.hash = Hash(AsTuple(self, copyAddr))])

\* Mutant: the class declared with eq=False, so == is identity, and two
\* constructor calls return two objects.
LeafEqIdentity(a, b) == FALSE

\* The dataclass-generated __eq__: same class and equal field tuples.
LeafEq(a, b) ==
    /\ a.cls = "QuantumExecutable" /\ b.cls = "QuantumExecutable"
    /\ \A i \in 1..Len(LeafFields) : a[LeafFields[i]] = b[LeafFields[i]]

\* QuantumExecutable.__hash__
LeafHash(a) == a.hash

(***************************************************************************)
(* dataclass(frozen=True): the generated __setattr__ raises for every      *)
(* attribute of an instance of the class itself.                           *)
(***************************************************************************)
\* Mutant: Bitstrings declared without frozen=True.
FrozenClassesButBitstrings ==
    {"Histogrammer", "FrozenCollectionOfPauliSum", "QuantumExecutable", "ProgramGroup"}

FrozenClasses ==
    {"Histogrammer", "FrozenCollectionOfPauliSum", "Bitstrings",
     "QuantumExecutable", "ProgramGroup"}

\* setattr(obj, name, value): [error, value], value the object afterwards.
SetAttr(obj, name, value) ==
    IF obj.cls \in FrozenClasses
    THEN Step(Raised("FrozenInstanceError", name), obj)
    ELSE Step(NoError, [obj EXCEPT ![name] = value])

(***************************************************************************)
(* ProgramGroup: a frozen dataclass of (info, programs, uuid).             *)
(***************************************************************************)
Group(info, programs, uuid) ==
    [cls |-> "ProgramGroup", info |-> info, programs |-> programs, uuid |-> uuid]

\* The generated __init__ followed by __post_init__: with no uuid given,
\* line 180 evaluates uuid.uuid4(), and the module binds no name uuid
\* (line 4 imports UUID and make_uuid4 only).
ProgramGroupInit(info, programs, uuid) ==
    IF uuid = "None"
    THEN Step(Raised("NameError", "uuid"), NoResult)
    ELSE Step(NoError, Group(info, programs, uuid))

\* == on nodes: the dataclass-generated __eq__ of either class; the
\* programs tuples compare element by element.
RECURSIVE NodeEq(_, _)
NodeEq(a, b) ==
    IF a.cls = "QuantumExecutable" \/ b.cls = "QuantumExecutable"
    THEN LeafEq(a, b)
    ELSE /\ a.cls = "ProgramGroup" /\ b.cls = "ProgramGroup"
         /\ a.info = b.info
         /\ Len(a.programs) = Len(b.programs)
         /\ \A i \in 1..Len(a.programs) : NodeEq(a.programs[i], b.programs[i])
         /\ a.uuid = b.uuid

\* ProgramGroup.__hash__
GroupHash(a) == Hash(<<a.uuid>>)

(***************************************************************************)
(* flatten_program_group.  A flat_list entry is the triple                 *)
(* <<leaf, merged info, parents>>.                                         *)
(***************************************************************************)
\* Mutant: the membership test of lines 210-211 left out, so a repeated
\* key is overwritten.
RECURSIVE MergeInfoOverwriting(_, _)
MergeInfoOverwriting(new_info, pg_info) ==
    IF pg_info = <<>> THEN Step(NoError, new_info)
    ELSE MergeInfoOverwriting(DictInsert(new_info, Head(pg_info)[1], Head(pg_info)[2]),
                              Tail(pg_info))

\* Mutant: the node's own keys put in front of the inherited ones.
RECURSIVE MergeInfoNodeFirst(_, _)
MergeInfoNodeFirst(new_info, pg_info) ==
    IF pg_info = <<>> THEN Step(NoError, new_info)
    ELSE LET k == pg_info[Len(pg_info)][1]
         IN  IF k \in DictKeys(new_info)
             THEN Step(Raised("ValueError", "Key already exists"), <<>>)
             ELSE MergeInfoNodeFirst(<<pg_info[Len(pg_info)]>> \o new_info,
                                     SubSeq(pg_info, 1, Len(pg_info) - 1))

\* for k in pg_info: raise if k in new_info, else new_info[k] = pg_info[k]
RECURSIVE MergeInfo(_, _)
MergeInfo(new_info, pg_info) ==
    IF pg_info = <<>> THEN Step(NoError, new_info)
    ELSE LET k == Head(pg_info)[1]
         IN  IF k \in DictKeys(new_info)
             THEN Step(Raised("ValueError", "Key already exists"), <<>>)
             ELSE MergeInfo(DictInsert(new_info, k, Head(pg_info)[2]), Tail(pg_info))

\* Mutant: the group appended after its ancestors.
ParentsOfChildRootFirst(pg, parents) == parents \o <<pg>>

\* parents=(pg,) + parents
ParentsOfChild(pg, parents) == <<pg>> \o parents

RECURSIVE RecurseFlatten(_, _, _, _)
RECURSIVE FlattenPrograms(_, _, _, _)

\* Mutant: the children visited last to first.
FlattenProgramsReversed(programs, flat_list, info, parents) ==
    IF programs = <<>> THEN Step(NoError, flat_list)
    ELSE LET n == Len(programs)
             r == RecurseFlatten(programs[n], flat_list, info, parents)
         IN  IF r.error # NoError THEN r
             ELSE FlattenPrograms(SubSeq(programs, 1, n - 1), r.value, info, parents)

\* for child in pg.programs: _recurse_flatten_programgroup(child, ...);
\* an exception ends the loop and the call.
FlattenPrograms(programs, flat_list, info, parents) ==
    IF programs = <<>> THEN Step(NoError, flat_list)
    ELSE LET r == RecurseFlatten(Head(programs), flat_list, info, parents)
         IN  IF r.error # NoError THEN r
             ELSE FlattenPrograms(Tail(programs), r.value, info, parents)

\* _recurse_flatten_programgroup(pg, flat_list, info, parents): the
\* flat_list afterwards, or the exception.
RecurseFlatten(pg, flat_list, info, parents) ==
    LET merged == MergeInfo(DictOf(info.items), DictOf(pg.info.items))
        new_info == PyTuple(merged.value)
    IN  IF merged.error # NoError THEN Step(merged.error, NoResult)
        ELSE IF pg.cls = "ProgramGroup"
        THEN FlattenPrograms(pg.programs, flat_list, new_info, ParentsOfChild(pg, parents))
        ELSE Step(NoError, Append(flat_list, <<pg, new_info, parents>>))

PyList(items) == [cls |-> "list", items |-> items]

\* flatten_program_group(pg)
FlattenProgramGroup(pg) ==
    LET r == RecurseFlatten(pg, <<>>, PyTuple(<<>>), <<>>)
    IN  IF r.error # NoError THEN Step(r.error, NoResult)
        ELSE Step(NoError, PyList(r.value))

(***************************************************************************)
(* Calls.  A call record keeps the operation, its arguments, the exception *)
(* raised (NoError when none) and the value returned.                      *)
(***************************************************************************)
Call(op, args, outcome) ==
    [op |-> op, args |-> args, error |-> outcome.error, result |-> outcome.value]

NoCall == Call("none", <<>>, Step(NoError, NoResult))

Succeeded(call) == call.error = NoError

LeafArgs(circuit, measurement, params, info, problem_topology, initial_state, uuid) ==
    [circuit |-> circuit, measurement |-> measurement, params |-> params,
     info |-> info, problem_topology |-> problem_topology,
     initial_state |-> initial_state, uuid |-> uuid]

\* Number of addresses a deep copy made by astuple can land on.
NumAddr == 2

Addrs == 1..NumAddr

\* QuantumExecutable(circuit, measurement, params, info, problem_topology,
\*                   initial_state, uuid)
NewExecutable(circuit, measurement, params, info, problem_topology, initial_state, uuid) ==
    \E copyAddr \in (IF problem_topology = "None" THEN {1} ELSE Addrs),
       stateHashable \in (IF initial_state = "None" THEN {TRUE} ELSE BOOLEAN) :
        last' = Call("QuantumExecutable",
                     LeafArgs(circuit, measurement, params, info,
                              problem_topology, initial_state, uuid),
                     QuantumExecutableInit(circuit, measurement, params, info,
                                           problem_topology, initial_state, uuid,
                                           copyAddr, stateHashable))

\* ProgramGroup(info, programs, uuid)
NewGroup(info, programs, uuid) ==
    last' = Call("ProgramGroup",
                 [info |-> info, programs |-> programs, uuid |-> uuid],
                 ProgramGroupInit(info, programs, uuid))

\* obj.name = value
Assign(obj, name, value) ==
    last' = Call("setattr", [obj |-> obj, name |-> name, value |-> value],
                 SetAttr(obj, name, value))

\* A value of the field's type, other than the one the driver builds.
LeafValueFor(name) ==
    CASE name = "circuit" -> FrozenCircuit("m3")
      [] name = "measurement" -> Bitstrings(30)
      [] name = "params" -> PyTuple(<<>>)
      [] name = "info" -> PyTuple(<<>>)
      [] name = "problem_topology" -> "None"
      [] name = "initial_state" -> "None"
      [] OTHER -> <<>>

GroupValueFor(name) ==
    CASE name = "info" -> PyTuple(<<>>)
      [] name = "programs" -> <<>>
      [] OTHER -> "u9"

BitstringsValueFor(name) ==
    CASE name = "n_repetitions" -> 40
      [] OTHER -> PyTuple(<<>>)

(***************************************************************************)
(* Inputs of the constructor.                                              *)
(***************************************************************************)
Circuits == <<Circuit("m1"), FrozenCircuit("m2")>>

Measurements ==
    <<Bitstrings(10), Bitstrings(20), FrozenCollectionOfPauliSum, Histogrammer,
      PauliSumList>>

ParamsChoices ==
    <<None, PyDict(<<<<"theta", 1>>>>), PyTuple(<<<<"theta", 1>>>>)>>

InfoChoices ==
    <<None, PyDict(<<<<"name", 1>>>>), PyTuple(<<<<"name", 1>>>>)>>

Topologies == {"None", "DiagonalRectangleTopology", "str"}

InitialStates == {"None", "ProductState", "str"}

Uuids == {"None", "u1"}

(***************************************************************************)
(* Spec: single constructor calls over every combination of arguments,     *)
(* and assignments to the object a call returned.                          *)
(***************************************************************************)
Init ==
    /\ stack = <<>>
    /\ last = NoCall
    /\ prev = NoCall
    /\ pc = "idle"
    /\ big_graph = NoResult
    /\ small_graph = NoResult
    /\ matcher = {}
    /\ dedupe = <<>>
    /\ small_mappeds = <<>>

Construct ==
    /\ \E c \in {Circuits[1]}, m \in Range(Measurements),
          p \in Range(ParamsChoices), i \in Range(InfoChoices),
          t \in Topologies, s \in InitialStates, u \in Uuids :
            NewExecutable(c, m, p, i, t, s, u)
    /\ UNCHANGED <<stack, prev, placing>>

\* A group of nothing, or of the leaf the last call returned.
ConstructGroup ==
    /\ \E i \in Range(InfoChoices), u \in Uuids,
          programs \in {<<>>} \cup
                       (IF last.result.cls = "QuantumExecutable"
                        THEN {<<last.result>>} ELSE {}) :
            NewGroup(i, programs, u)
    /\ UNCHANGED <<stack, prev, placing>>

\* prog.<name> = value, prog the leaf the last call returned
AssignLeafField ==
    /\ last.result.cls = "QuantumExecutable"
    /\ \E name \in Range(LeafFields) \cup {"hash"} :
          Assign(last.result, name, LeafValueFor(name))
    /\ UNCHANGED <<stack, prev, placing>>

\* prog.measurement.<name> = value, as test_executable does
AssignMeasurementField ==
    /\ last.result.cls = "QuantumExecutable"
    /\ last.result.measurement.cls = "Bitstrings"
    /\ \E name \in {"n_repetitions", "measure_qubits"} :
          Assign(last.result.measurement, name, BitstringsValueFor(name))
    /\ UNCHANGED <<stack, prev, placing>>

\* group.<name> = value, group the one the last call returned
AssignGroupField ==
    /\ last.result.cls = "ProgramGroup"
    /\ \E name \in {"info", "programs", "uuid"} :
          Assign(last.result, name, GroupValueFor(name))
    /\ UNCHANGED <<stack, prev, placing>>

Next ==
    \/ Construct
    \/ ConstructGroup
    \/ AssignLeafField
    \/ AssignMeasurementField
    \/ AssignGroupField

Spec == Init /\ [][Next]_vars

\* C9: a leaf constructor call whose measurement is none of Bitstrings,
\* FrozenCollectionOfPauliSum, Histogrammer raises the measurement's
\* ValueError and yields no leaf; a measurement of one of the three never
\* raises it, and the leaf built stores that measurement.
RecognisedVariants == {"Bitstrings", "FrozenCollectionOfPauliSum", "Histogrammer"}

MeasurementValidated ==
    last.op = "QuantumExecutable" =>
        IF last.args.measurement.cls \in RecognisedVariants
        THEN /\ last.error # Raised("ValueError", "measurement")
             /\ Succeeded(last) => last.result.measurement = last.args.measurement
        ELSE /\ last.error = Raised("ValueError", "measurement")
             /\ last.result = NoResult

MeasurementRejected ==
    /\ last.op = "QuantumExecutable"
    /\ last.args.measurement = PauliSumList
    /\ last.args.info.type = "dict"
    /\ last.error.exc = "ValueError"
    /\ last.result = NoResult

\* C10 (as claimed): a leaf constructor call with a recognised measurement
\* succeeds whichever of params, info, problem_topology and initial_state
\* are given or omitted and whether info is a dict or a tuple of pairs, and
\* the leaf stores info and params as tuples of pairs.  (A ProductState
\* whose astuple the library cannot hash is left out of the statement.)
ValidLeafArgs(args) ==
    /\ args.measurement.cls \in RecognisedVariants
    /\ args.problem_topology \in {"None", "DiagonalRectangleTopology"}
    /\ args.initial_state \in {"None", "ProductState"}

EveryCombinationConstructs ==
    (last.op = "QuantumExecutable" /\ ValidLeafArgs(last.args)
        /\ last.error # Raised("TypeError", "_hash")) =>
        /\ Succeeded(last)
        /\ last.result.info = PyTuple(last.args.info.items)
        /\ last.result.params = PyTuple(last.args.params.items)

\* C11 (as claimed): every constructed node, leaf or group, carries an
\* identifier: a ProgramGroup call always succeeds, a uuid given to either
\* constructor is stored verbatim on the node built, and with none given the
\* node stores a generated one.
NodeCarriesIdentifier ==
    /\ last.op = "ProgramGroup" => Succeeded(last)
    /\ (last.op \in {"QuantumExecutable", "ProgramGroup"} /\ Succeeded(last)) =>
          /\ "uuid" \in DOMAIN last.result
          /\ IF last.args.uuid # "None"
             THEN last.result.uuid = last.args.uuid
             ELSE last.result.uuid # "None"

(***************************************************************************)
(* SpecPair: two constructor calls in a row, the driver remembering the    *)
(* call before the last one.                                               *)
(***************************************************************************)
PairMeasurements == <<Bitstrings(10), Bitstrings(20), Histogrammer>>

PairParams == <<None, PyTuple(<<<<"theta", 1>>>>)>>

PairInfos == <<PyDict(<<<<"name", 1>>>>), PyTuple(<<<<"name", 1>>>>)>>

PairTopologies == {"None", "DiagonalRectangleTopology"}

PairGroupUuids == {"None", "u1", "u2"}

ConstructLeafAgain ==
    /\ \E c \in Range(Circuits), m \in Range(PairMeasurements),
          p \in Range(PairParams), i \in Range(PairInfos), t \in PairTopologies :
            NewExecutable(c, m, p, i, t, "None", "None")
    /\ prev' = last
    /\ UNCHANGED <<stack, placing>>

\* A group of nothing, of the leaf the last call returned, or of the
\* programs the last call grouped.
ConstructGroupAgain ==
    /\ \E i \in Range(PairInfos), u \in PairGroupUuids,
          programs \in {<<>>} \cup
                       (IF last.result.cls = "QuantumExecutable"
                        THEN {<<last.result>>} ELSE {}) \cup
                       (IF last.op = "ProgramGroup"
                        THEN {last.args.programs} ELSE {}) :
            NewGroup(i, programs, u)
    /\ prev' = last
    /\ UNCHANGED <<stack, placing>>

NextPair == ConstructLeafAgain \/ ConstructGroupAgain

SpecPair == Init /\ [][NextPair]_vars

BothBuilt ==
    /\ prev.op = "QuantumExecutable" /\ last.op = "QuantumExecutable"
    /\ Succeeded(prev) /\ Succeeded(last)

\* The two calls pass the same circuit, measurement, params and info and
\* nothing else.
SameLeafCalls ==
    /\ BothBuilt
    /\ prev.args.circuit = last.args.circuit
    /\ prev.args.measurement = last.args.measurement
    /\ prev.args.params = last.args.params
    /\ prev.args.info = last.args.info
    /\ prev.args.problem_topology = "None" /\ last.args.problem_topology = "None"
    /\ prev.args.initial_state = "None" /\ last.args.initial_state = "None"

DifferOnlyInRepetitions ==
    /\ BothBuilt
    /\ prev.args.measurement.cls = "Bitstrings"
    /\ last.args.measurement.cls = "Bitstrings"
    /\ prev.args.measurement.n_repetitions # last.args.measurement.n_repetitions
    /\ [prev.args EXCEPT !.measurement = None] = [last.args EXCEPT !.measurement = None]

\* C6: two leaves that differ only in the repetition count of their
\* Bitstrings measurement compare unequal and have unequal hashes.
RepetitionsDistinguish ==
    DifferOnlyInRepetitions =>
        /\ ~LeafEq(prev.result, last.result)
        /\ LeafHash(prev.result) # LeafHash(last.result)

RepetitionsDiffer ==
    /\ DifferOnlyInRepetitions
    /\ prev.args.measurement.n_repetitions = 10
    /\ last.args.measurement.n_repetitions = 20
    /\ ~LeafEq(prev.result, last.result)

\* C7 (as claimed): two ProgramGroup calls with the same info and the same
\* programs both return a group, and the two groups compare equal and have
\* equal hashes, whatever identifier each carries.
GroupsEqualByContent ==
    (/\ prev.op = "ProgramGroup" /\ last.op = "ProgramGroup"
     /\ prev.args.info = last.args.info
     /\ prev.args.programs = last.args.programs) =>
        /\ Succeeded(prev) /\ Succeeded(last)
        /\ NodeEq(prev.result, last.result)
        /\ GroupHash(prev.result) = GroupHash(last.result)

(***************************************************************************)
(* SpecTree: the driver builds a tree bottom-up.  Every node built is      *)
(* pushed on the stack; a group takes the topmost nodes of the stack as    *)
(* its programs.  The tree on top of the stack can be flattened.             *)
(***************************************************************************)
\* Nodes (leaves and groups) the driver may hold at once.
MaxNodes == 5

GroupInfoItems == << <<<<"p", 3>>>>, <<<<"q", 7>>>> >>

LeafInfoItems == << <<<<"n", 2>>>>, <<<<"n", 5>>, <<"p", 4>>>> >>

TreeGroupUuids == {"None", "u1"}

RECURSIVE NodeCount(_)
NodeCount(node) ==
    IF node.cls = "ProgramGroup"
    THEN LET RECURSIVE Sum(_)
             Sum(ps) == IF ps = <<>> THEN 0 ELSE NodeCount(Head(ps)) + Sum(Tail(ps))
         IN  1 + Sum(node.programs)
    ELSE 1

RECURSIVE NodesHeld(_)
NodesHeld(nodes) ==
    IF nodes = <<>> THEN 0 ELSE NodeCount(Head(nodes)) + NodesHeld(Tail(nodes))

Top == stack[Len(stack)]

PushLeaf ==
    /\ NodesHeld(stack) < MaxNodes
    /\ \E items \in Range(LeafInfoItems) :
          NewExecutable(Circuits[1], Bitstrings(10), None, PyDict(items),
                        "None", "None", "None")
    /\ stack' = IF Succeeded(last') THEN Append(stack, last'.result) ELSE stack
    /\ UNCHANGED <<prev, placing>>

PushGroup ==
    /\ NodesHeld(stack) < MaxNodes
    /\ \E items \in Range(GroupInfoItems), k \in 0..Len(stack), u \in TreeGroupUuids :
          /\ NewGroup(PyTuple(items), SubSeq(stack, Len(stack) - k + 1, Len(stack)), u)
          /\ stack' = IF Succeeded(last')
                      THEN Append(SubSeq(stack, 1, Len(stack) - k), last'.result)
                      ELSE stack
    /\ UNCHANGED <<prev, placing>>

FlattenTop ==
    /\ stack # <<>>
    /\ Top.cls = "ProgramGroup"
    /\ last' = Call("flatten_program_group", [pg |-> Top], FlattenProgramGroup(Top))
    /\ UNCHANGED <<stack, prev, placing>>

NextTree == PushLeaf \/ PushGroup \/ FlattenTop

SpecTree == Init /\ [][NextTree]_vars

(***************************************************************************)
(* The tree of a group, read off its structure.                            *)
(***************************************************************************)
RECURSIVE LeafPaths(_)
RECURSIVE LeafPathsOfAll(_)

\* The root-to-leaf paths under node, each the sequence of nodes from node
\* down to a leaf, in depth-first, left-to-right order.
LeafPaths(node) ==
    IF node.cls = "ProgramGroup"
    THEN LET below == LeafPathsOfAll(node.programs)
         IN  [i \in 1..Len(below) |-> <<node>> \o below[i]]
    ELSE << <<node>> >>

LeafPathsOfAll(programs) ==
    IF programs = <<>> THEN <<>>
    ELSE LeafPaths(Head(programs)) \o LeafPathsOfAll(Tail(programs))

\* The paths from node down to every node under it, leaf or group.
RECURSIVE NodePaths(_)
NodePaths(node) ==
    {<<node>>} \cup
    (IF node.cls = "ProgramGroup"
     THEN UNION {{<<node>> \o p : p \in NodePaths(node.programs[i])} :
                 i \in 1..Len(node.programs)}
     ELSE {})

\* The key-value pairs of the nodes of a path, root first.
RECURSIVE PathItems(_)
PathItems(path) ==
    IF path = <<>> THEN <<>> ELSE Head(path).info.items \o PathItems(Tail(path))

RepeatsKey(items) ==
    \E i, j \in 1..Len(items) : i < j /\ items[i][1] = items[j][1]

\* The groups of a root-to-leaf path, nearest parent of the leaf first.
Enclosing(path) ==
    [i \in 1..(Len(path) - 1) |-> path[Len(path) - i]]

Flattened == last.op = "flatten_program_group" /\ Succeeded(last)

\* One triple per leaf, in the order of the leaves.
LeafByLeaf(root, triples) ==
    /\ Len(triples) = Len(LeafPaths(root))
    /\ \A i \in 1..Len(triples) :
          triples[i][1] = LeafPaths(root)[i][Len(LeafPaths(root)[i])]

\* C1 (as claimed): flattening a tree none of whose root-to-leaf paths
\* repeats a key returns one triple per leaf, in depth-first, left-to-right
\* leaf order.
FlattenLeafOrderOnLeafPaths ==
    (/\ last.op = "flatten_program_group"
     /\ \A i \in 1..Len(LeafPaths(last.args.pg)) :
           ~RepeatsKey(PathItems(LeafPaths(last.args.pg)[i]))) =>
        /\ Succeeded(last)
        /\ LeafByLeaf(last.args.pg, last.result.items)

\* C1 (amended): flattening a tree none of whose root-to-node paths, to a
\* leaf or to a group, repeats a key returns one triple per leaf, in
\* depth-first, left-to-right leaf order.
FlattenLeafOrder ==
    (/\ last.op = "flatten_program_group"
     /\ \A p \in NodePaths(last.args.pg) : ~RepeatsKey(PathItems(p))) =>
        /\ Succeeded(last)
        /\ LeafByLeaf(last.args.pg, last.result.items)

\* A group of a subgroup and a leaf, flattened to two different leaves.
FlattenedNestedTree ==
    /\ Flattened
    /\ Len(last.args.pg.programs) = 2
    /\ last.args.pg.programs[1].cls = "ProgramGroup"
    /\ last.args.pg.programs[2].cls = "QuantumExecutable"
    /\ Len(last.result.items) = 2
    /\ last.result.items[1][1] # last.result.items[2][1]

\* C2: the merged info of every triple is the key-value pairs of the nodes
\* on the path from the root to the triple's leaf, root's first, each
\* node's in its own order.
MergedInfoIsPathUnion ==
    Flattened =>
        /\ Len(last.result.items) = Len(LeafPaths(last.args.pg))
        /\ \A i \in 1..Len(last.result.items) :
              last.result.items[i][2] = PyTuple(PathItems(LeafPaths(last.args.pg)[i]))

\* The group {p: 3} of the leaf {n: 2} gives {p: 3, n: 2}.
MergedGroupThenLeaf ==
    /\ Flattened
    /\ last.args.pg.info = PyTuple(<<<<"p", 3>>>>)
    /\ Len(last.args.pg.programs) = 1
    /\ last.args.pg.programs[1].cls = "QuantumExecutable"
    /\ last.args.pg.programs[1].info = PyTuple(<<<<"n", 2>>>>)
    /\ last.result.items[1][2] = PyTuple(<<<<"p", 3>>, <<"n", 2>>>>)

\* C3: flattening a tree with a root-to-leaf path that has the same key on
\* two nodes raises the duplicate-key ValueError and returns nothing; the
\* ProgramGroup call that built such a tree raised nothing.
DuplicateKeyRaises ==
    /\ (/\ last.op = "flatten_program_group"
        /\ \E i \in 1..Len(LeafPaths(last.args.pg)) :
              RepeatsKey(PathItems(LeafPaths(last.args.pg)[i]))) =>
           /\ last.error = Raised("ValueError", "Key already exists")
           /\ last.result = NoResult
    /\ (last.op = "ProgramGroup" /\ last.args.uuid # "None") =>
           /\ Succeeded(last)
           /\ stack # <<>> /\ Top = last.result

\* A group {p: 3} over a leaf {n: 5, p: 4} was built and its flattening
\* raised.
DuplicateKeyRaised ==
    /\ last.op = "flatten_program_group"
    /\ last.args.pg = Top
    /\ last.args.pg.info = PyTuple(<<<<"p", 3>>>>)
    /\ Len(last.args.pg.programs) = 1
    /\ last.args.pg.programs[1].cls = "QuantumExecutable"
    /\ last.args.pg.programs[1].info = PyTuple(<<<<"n", 5>>, <<"p", 4>>>>)
    /\ last.error.exc = "ValueError"

\* C4: the ancestor chain of every triple is the groups enclosing the
\* triple's leaf, nearest parent first and the root last.
AncestorChainNearestFirst ==
    Flattened =>
        /\ Len(last.result.items) = Len(LeafPaths(last.args.pg))
        /\ \A i \in 1..Len(last.result.items) :
              last.result.items[i][3] = Enclosing(LeafPaths(last.args.pg)[i])

\* A leaf under two different groups.
ChainOfTwo ==
    /\ Flattened
    /\ \E i \in 1..Len(last.result.items) :
          /\ Len(last.result.items[i][3]) = 2
          /\ last.result.items[i][3][1] # last.result.items[i][3][2]
          /\ last.result.items[i][3][2] = last.args.pg

\* C8: an assignment to an attribute of a leaf, of a group or of a
\* Bitstrings raises FrozenInstanceError and leaves the object as it was.
AssignmentRefused ==
    last.op = "setattr" =>
        /\ last.args.obj.cls \in {"QuantumExecutable", "ProgramGroup", "Bitstrings"}
        /\ last.error = Raised("FrozenInstanceError", last.args.name)
        /\ last.result = last.args.obj

\* prog.measurement.n_repetitions = ... was attempted.
RepetitionsAssignmentRefused ==
    /\ last.op = "setattr"
    /\ last.args.obj.cls = "Bitstrings"
    /\ last.args.name = "n_repetitions"
    /\ last.args.value # last.args.obj.n_repetitions
    /\ last.error.exc = "FrozenInstanceError"

(***************************************************************************)
(* named_topologies.py.  An nx.Graph is its set of nodes and its set of    *)
(* undirected edges, an edge the set of its two ends.                      *)
(***************************************************************************)
Graph(nodes, edges) == [cls |-> "Graph", nodes |-> nodes, edges |-> edges]

\* nx.Graph()
EmptyGraph == Graph({}, {})

\* g.add_edge(u, v): both ends become nodes.
AddEdge(g, u, v) == Graph(g.nodes \cup {u, v}, g.edges \cup {{u, v}})

\* nx.from_edgelist(edgelist): the nodes are the ends of the edges given.
RECURSIVE FromEdgelist(_)
FromEdgelist(edgelist) ==
    IF edgelist = <<>> THEN EmptyGraph
    ELSE LET n == Len(edgelist)
         IN  AddEdge(FromEdgelist(SubSeq(edgelist, 1, n - 1)),
                     edgelist[n][1], edgelist[n][2])

\* len(g)
GraphLen(g) == Cardinality(g.nodes)

\* range(start, stop) as a list; empty when stop <= start.
PyRange(start, stop) ==
    [i \in 1..(IF stop > start THEN stop - start ELSE 0) |-> start + i - 1]

\* zip(a, b): as long as the shorter one.
Zip(a, b) ==
    [i \in 1..(IF Len(a) < Len(b) THEN Len(a) ELSE Len(b)) |-> <<a[i], b[i]>>]

\* LineTopology(n_qubits): no statement of __init__ raises for an integer.
LineTopologyInit(n_qubits) ==
    Step(NoError,
         [cls |-> "LineTopology",
          n_qubits |-> n_qubits,
          name |-> <<n_qubits, "q-line">>,
          graph |-> FromEdgelist(Zip(PyRange(0, n_qubits), PyRange(1, n_qubits)))])

\* The body of the two loops of DiagonalRectangleTopology.__init__.
AddMegacell(g, megarow, megacol) ==
    LET y == megacol + megarow
        x == megacol - megarow
        g1 == AddEdge(g, <<x, y>>, <<x - 1, y>>)
        g2 == AddEdge(g1, <<x, y>>, <<x, y - 1>>)
        g3 == AddEdge(g2, <<x, y>>, <<x + 1, y>>)
    IN  AddEdge(g3, <<x, y>>, <<x, y + 1>>)

\* for megacol in range(width), from megacol on
RECURSIVE AddMegacols(_, _, _, _)
AddMegacols(g, megarow, megacol, width) ==
    IF megacol >= width THEN g
    ELSE AddMegacols(AddMegacell(g, megarow, megacol), megarow, megacol + 1, width)

\* for megarow in range(height), from megarow on
RECURSIVE AddMegarows(_, _, _, _)
AddMegarows(g, megarow, width, height) ==
    IF megarow >= height THEN g
    ELSE AddMegarows(AddMegacols(g, megarow, 0, width), megarow + 1, width, height)

\* DiagonalRectangleTopology(width, height): the topology, or the
\* AssertionError of the last statement.
DiagonalRectangleTopologyInit(width, height) ==
    LET g == AddMegarows(EmptyGraph, 0, width, height)
        n_qubits == 2 * width * height + width + height + 1
    IN  IF n_qubits # GraphLen(g)
        THEN Step(Raised("AssertionError", "n_qubits"), NoResult)
        ELSE Step(NoError,
                  [cls |-> "DiagonalRectangleTopology",
                   width |-> width, height |-> height,
                   name |-> <<width, height, "diagonal-rectangle">>,
                   graph |-> g, n_qubits |-> n_qubits])

\* Largest n_qubits of a line the driver builds.
MaxLine == 4

\* Largest side of a diagonal rectangle the driver builds.
MaxSide == 2

NewLineTopology(n_qubits) ==
    last' = Call("LineTopology", [n_qubits |-> n_qubits], LineTopologyInit(n_qubits))

NewDiagonalRectangleTopology(width, height) ==
    last' = Call("DiagonalRectangleTopology", [width |-> width, height |-> height],
                 DiagonalRectangleTopologyInit(width, height))

\* C12 (as claimed): for any width >= 0 and height >= 0 the constructor
\* call DiagonalRectangleTopology(width, height) succeeds, and the graph of
\* the topology has exactly 2*width*height + width + height + 1 nodes.
DiagonalRectangleNodeCount ==
    (last.op = "DiagonalRectangleTopology"
        /\ last.args.width >= 0 /\ last.args.height >= 0) =>
        /\ Succeeded(last)
        /\ GraphLen(last.result.graph) =
              2 * last.args.width * last.args.height
                + last.args.width + last.args.height + 1

(***************************************************************************)
(* get_placements(big_graph, small_graph), plt left None: one step per     *)
(* iteration of its two loops.  The matcher is the library's; it is kept   *)
(* as the set of mappings it has still to yield, in an order the library   *)
(* decides.                                                                *)
(***************************************************************************)
Injective(f) == \A a, b \in DOMAIN f : f[a] = f[b] => a = b

\* The one-to-one maps of the nodes of small to nodes of big that take
\* every edge of small to an edge of big.
SmallToBigMaps(big, small) ==
    {f \in [small.nodes -> big.nodes] :
        /\ Injective(f)
        /\ \A e \in small.edges : {f[n] : n \in e} \in big.edges}

\* {v: k for k, v in m.items()}
Invert(m) ==
    [v \in {m[k] : k \in DOMAIN m} |-> CHOOSE k \in DOMAIN m : m[k] = v]

\* What GraphMatcher(big, small).subgraph_monomorphisms_iter() yields:
\* each monomorphism as a dict from nodes of big to nodes of small.
SubgraphMonomorphisms(big, small) == {Invert(f) : f \in SmallToBigMaps(big, small)}

\* Mutant: the maps deduplicated by their items, not their keys.
DedupeKeyItems(big_to_small_map) ==
    {<<k, big_to_small_map[k]>> : k \in DOMAIN big_to_small_map}

\* frozenset(big_to_small_map.keys())
DedupeKey(big_to_small_map) == DOMAIN big_to_small_map

\* nx.relabel_nodes(g, mapping): a copy of g, each node n named
\* mapping.get(n, n).
RelabelNodes(g, mapping) ==
    LET new(n) == IF n \in DOMAIN mapping THEN mapping[n] ELSE n
    IN  Graph({new(n) : n \in g.nodes}, {{new(n) : n \in e} : e \in g.edges})

PlacementArgs(big, small) == [big_graph |-> big, small_graph |-> small]

\* get_placements is entered: matcher, count and dedupe are set up.
GetPlacementsCall(big, small) ==
    /\ pc' = "matching"
    /\ big_graph' = big
    /\ small_graph' = small
    /\ matcher' = SubgraphMonomorphisms(big, small)
    /\ dedupe' = <<>>
    /\ small_mappeds' = <<>>
    /\ last' = Call("get_placements", PlacementArgs(big, small), Step(NoError, NoResult))
    /\ UNCHANGED <<stack, prev>>

\* One iteration of the first loop: the matcher yields a mapping.
MatchNext ==
    /\ pc = "matching"
    /\ \E big_to_small_map \in matcher :
          /\ dedupe' = DictInsert(dedupe, DedupeKey(big_to_small_map), big_to_small_map)
          /\ matcher' = matcher \ {big_to_small_map}
    /\ UNCHANGED <<stack, last, prev, pc, big_graph, small_graph, small_mappeds>>

\* The matcher is exhausted; small_mappeds = [].
MatchDone ==
    /\ pc = "matching"
    /\ matcher = {}
    /\ pc' = "relabelling"
    /\ small_mappeds' = <<>>
    /\ UNCHANGED <<stack, last, prev, big_graph, small_graph, matcher, dedupe>>

\* One iteration of the second loop, over dedupe.values().
RelabelNext ==
    /\ pc = "relabelling"
    /\ Len(small_mappeds) < Len(dedupe)
    /\ LET big_to_small_map == dedupe[Len(small_mappeds) + 1][2]
           small_to_big_map == Invert(big_to_small_map)
       IN  small_mappeds' = Append(small_mappeds, RelabelNodes(small_graph, small_to_big_map))
    /\ UNCHANGED <<stack, last, prev, pc, big_graph, small_graph, matcher, dedupe>>

\* return small_mappeds
ReturnPlacements ==
    /\ pc = "relabelling"
    /\ Len(small_mappeds) = Len(dedupe)
    /\ last' = Call("get_placements", PlacementArgs(big_graph, small_graph),
                    Step(NoError, PyList(small_mappeds)))
    /\ pc' = "idle"
    /\ big_graph' = NoResult
    /\ small_graph' = NoResult
    /\ matcher' = {}
    /\ dedupe' = <<>>
    /\ small_mappeds' = <<>>
    /\ UNCHANGED <<stack, prev>>

(***************************************************************************)
(* SpecTopology: topologies are constructed, and placements are sought of  *)
(* one line in another and of an edge in the smallest diagonal rectangle.   *)
(***************************************************************************)
LineSizes == -1..MaxLine

Sides == 0..MaxSide

LineGraph(n) == LineTopologyInit(n).value.graph

\* The <<big_graph, small_graph>> of lines the driver passes to
\* get_placements.
LinePlacementInputs ==
    {<<LineGraph(k), LineGraph(j)>> : k \in 2..MaxLine, j \in 1..MaxLine}

\* The graph of DiagonalRectangleTopology(1, 1): a node and its four
\* neighbours.
UnitRectangleGraph == DiagonalRectangleTopologyInit(1, 1).value.graph

ConstructLine ==
    /\ pc = "idle"
    /\ \E n \in LineSizes : NewLineTopology(n)
    /\ UNCHANGED <<stack, prev, placing>>

ConstructDiagonalRectangle ==
    /\ pc = "idle"
    /\ \E width \in Sides, height \in Sides :
          NewDiagonalRectangleTopology(width, height)
    /\ UNCHANGED <<stack, prev, placing>>

Place ==
    /\ pc = "idle"
    /\ \/ \E graphs \in LinePlacementInputs :
              GetPlacementsCall(graphs[1], graphs[2])
       \/ GetPlacementsCall(UnitRectangleGraph, LineGraph(2))

NextTopology ==
    \/ ConstructLine
    \/ ConstructDiagonalRectangle
    \/ Place
    \/ MatchNext
    \/ MatchDone
    \/ RelabelNext
    \/ ReturnPlacements

SpecTopology == Init /\ [][NextTopology]_vars

\* get_placements has returned.
Placed == pc = "idle" /\ last.op = "get_placements"

\* C13: the placements get_placements returns are one for each distinct
\* set of nodes of big that is the image of a monomorphism of small into
\* big: no two have the same node set, every such node set is the node set
\* of one, and each is small relabelled by a monomorphism, so that all its
\* edges are edges of big.
OnePlacementPerNodeSet ==
    Placed =>
        LET big == last.args.big_graph
            small == last.args.small_graph
            placements == last.result.items
            monos == SmallToBigMaps(big, small)
        IN  /\ \A i, j \in 1..Len(placements) :
                  placements[i].nodes = placements[j].nodes => i = j
            /\ {placements[i].nodes : i \in 1..Len(placements)} =
                  {{f[n] : n \in small.nodes} : f \in monos}
            /\ \A i \in 1..Len(placements) :
                  /\ \E f \in monos :
                        /\ placements[i].nodes = {f[n] : n \in small.nodes}
                        /\ placements[i].edges =
                              {{f[n] : n \in e} : e \in small.edges}
                  /\ placements[i].edges \subseteq big.edges

\* Several monomorphisms shared a node set, and more than one node set
\* was found.
SharedNodeSetsPlaced ==
    /\ Placed
    /\ Len(last.result.items) >= 2
    /\ Cardinality(SmallToBigMaps(last.args.big_graph, last.args.small_graph))
          > Len(last.result.items)

\* C14 (as claimed): LineTopology(n) for n >= 1 gives the graph of the n
\* nodes 0..n-1 and the n-1 edges (i, i+1); for n < 1 the call fails.
LineIsPath ==
    last.op = "LineTopology" =>
        LET n == last.args.n_qubits
        IN  IF n >= 1
            THEN /\ Succeeded(last)
                 /\ last.result.graph.nodes = 0..(n - 1)
                 /\ last.result.graph.edges = {{i, i + 1} : i \in 0..(n - 2)}
            ELSE ~Succeeded(last)

====
